---- MODULE Spec2Model ----
(***************************************************************************)
(* Workflow finalisation in cirrus: the update-state handler               *)
(* (core/config/update-state/handler.py) and the workflow-failed task      *)
(* handler (tasks/config/workflow-failed/handler.py).                      *)
(*                                                                         *)
(* A handler invocation is a sequence of steps, one per external call      *)
(* (execution history, batch logs, state database, SNS).  Python values    *)
(* are encoded as follows: a dict is a TLA+ record (function on its keys), *)
(* a list is a sequence, a str is a string, None is the record None        *)
(* where the other values are records and the string PyNone where the      *)
(* other values are strings.                                               *)
(***************************************************************************)
EXTENDS Integers, Sequences, FiniteSets, TLC

VARIABLES
    FAILED_TOPIC_ARN,   \* module global, read from the environment at load
    INVALID_TOPIC_ARN,  \* module global, read from the environment at load
    statedb,            \* the state database: one record per workflow identity
    sns,                \* every message SNS accepted, in order
    pc,                 \* per invocation: the step it is at
    entry,              \* per invocation: which handler runs
    payload,            \* per invocation: the event it was handed
    locals,             \* per invocation: the handler's local variables
    calls,              \* per invocation: the external calls it made so far
    outcome,            \* per invocation: running / returned / raised
    past                \* per invocation: the earlier deliveries of its event

vars == <<FAILED_TOPIC_ARN, INVALID_TOPIC_ARN, statedb, sns, pc, entry,
          payload, locals, calls, outcome, past>>

-----------------------------------------------------------------------------
(* Bounds of the model *)

\* how many times the caller hands the same event to a handler
MaxDeliveries == 2

-----------------------------------------------------------------------------
(* Python values *)

None == [py_none |-> TRUE]
PyNone == "<None>"

\* how many execution events to request/check
MAX_EXECUTION_EVENTS == 10

FAILED == "FAILED"

\* the handlers, by the component that holds them
Procs == {"p1", "p2"}
UPDATE_STATE == "update-state"
WORKFLOW_FAILED == "workflow-failed"

\* the workflow identities that have a record in the state database
IDs == {"wf1", "wf2"}

\* s[-1] of a non-empty Python list
Last(s) == s[Len(s)]

\* `sub in s` for two Python strings
StrContains(s, sub) ==
    \E i \in 1..(Len(s) - Len(sub) + 1) : SubSeq(s, i, i + Len(sub) - 1) = sub

-----------------------------------------------------------------------------
(* The JSON texts of the model and json.loads on them *)

ESSENTIAL_EXIT == "Essential container in task exited"

\* the batch log streams a Cause can name
LogNames == {"job/invalid", "job/badformat", "job/killed", "job/exit", "job/empty"}

\* Cause texts
CauseText == "bad input"
CauseNumber == "503"
CauseEmptyObject == "{}"
CauseErrorMessage == "{\"errorMessage\": \"disk full\"}"
CauseErrorMessageEmpty == "{\"errorMessage\": \"\"}"
CauseAttemptsEmpty == "{\"Attempts\": []}"
CauseAttemptsNoReason ==
    "{\"Attempts\": [{\"Container\": {\"LogStreamName\": \"job/invalid\"}}]}"
CauseAttemptsOtherReason ==
    "{\"Attempts\": [{\"StatusReason\": \"Host EC2 terminated\", \"Container\": {\"LogStreamName\": \"job/invalid\"}}]}"
CauseAttemptsNoLog ==
    "{\"Attempts\": [{\"StatusReason\": \"Essential container in task exited\"}]}"
CauseBatch(logname) ==
    "{\"Attempts\": [{\"StatusReason\": \"Host EC2 terminated\"}, {\"StatusReason\": \"Essential container in task exited\", \"Container\": {\"LogStreamName\": \""
        \o logname \o "\"}}]}"

\* workflow documents, as the `input` of an execution event carries them
InputDoc(id) == "{\"id\": \"" \o id \o "\"}"
InputNoId == "{\"process\": {}}"
InputNotJson == "id=wf1"
InputWithError(id) ==
    "{\"id\": \"" \o id \o "\", \"error\": {\"Error\": \"InvalidInput\", \"Cause\": \"bad input\"}}"
InputWithTimeout(id) ==
    "{\"id\": \"" \o id \o "\", \"error\": {\"Error\": \"States.Timeout\", \"Cause\": \"{\\\"errorMessage\\\": \\\"disk full\\\"}\"}}"

Loaded(kind, value) == [ok |-> TRUE, kind |-> kind, value |-> value]
JSONDecodeError == [ok |-> FALSE]

\* json.loads(s): the document a text decodes to, or JSONDecodeError
json_loads(s) ==
    CASE s = CauseNumber -> Loaded("number", 503)
      [] s = CauseEmptyObject -> Loaded("object", <<>>)
      [] s = CauseErrorMessage -> Loaded("object", [errorMessage |-> "disk full"])
      [] s = CauseErrorMessageEmpty -> Loaded("object", [errorMessage |-> ""])
      [] s = CauseAttemptsEmpty -> Loaded("object", [Attempts |-> <<>>])
      [] s = CauseAttemptsNoReason ->
            Loaded("object",
                   [Attempts |-> <<[Container |-> [LogStreamName |-> "job/invalid"]]>>])
      [] s = CauseAttemptsOtherReason ->
            Loaded("object",
                   [Attempts |-> <<[StatusReason |-> "Host EC2 terminated",
                                    Container |-> [LogStreamName |-> "job/invalid"]]>>])
      [] s = CauseAttemptsNoLog ->
            Loaded("object", [Attempts |-> <<[StatusReason |-> ESSENTIAL_EXIT]>>])
      [] \E n \in LogNames : s = CauseBatch(n) ->
            LET n == CHOOSE m \in LogNames : s = CauseBatch(m)
            IN Loaded("object",
                      [Attempts |-> <<[StatusReason |-> "Host EC2 terminated"],
                                      [StatusReason |-> ESSENTIAL_EXIT,
                                       Container |-> [LogStreamName |-> n]]>>])
      [] \E i \in IDs : s = InputDoc(i) ->
            Loaded("object", [id |-> CHOOSE i \in IDs : s = InputDoc(i)])
      [] s = InputNoId -> Loaded("object", [process |-> <<>>])
      [] \E i \in IDs : s = InputWithError(i) ->
            Loaded("object",
                   [id |-> CHOOSE i \in IDs : s = InputWithError(i),
                    error |-> [Error |-> "InvalidInput", Cause |-> CauseText]])
      [] \E i \in IDs : s = InputWithTimeout(i) ->
            Loaded("object",
                   [id |-> CHOOSE i \in IDs : s = InputWithTimeout(i),
                    error |-> [Error |-> "States.Timeout", Cause |-> CauseErrorMessage]])
      [] OTHER -> JSONDecodeError

-----------------------------------------------------------------------------
(* The collaborators' data: execution histories and batch log streams *)

Arns == {"arn:exec:invalid", "arn:exec:timeout", "arn:exec:noerror",
         "arn:exec:badinput", "arn:exec:long"}

Entered(input) ==
    [type |-> "StateEntered", stateEnteredEventDetails |-> [input |-> input]]
Plain(type) == [type |-> type]

\* the events of an execution, oldest first
History(arn) ==
    CASE arn = "arn:exec:invalid" ->
            <<Plain("ExecutionStarted"), Entered(InputDoc("wf1")), Plain("TaskFailed"),
              Entered(InputWithError("wf1")), Plain("ExecutionFailed")>>
      [] arn = "arn:exec:timeout" ->
            <<Plain("ExecutionStarted"), Entered(InputWithError("wf1")),
              Plain("TaskTimedOut"), Entered(InputWithTimeout("wf1")),
              [type |-> "StateExited", stateExitedEventDetails |-> [name |-> "failure"]],
              Plain("ExecutionFailed")>>
      [] arn = "arn:exec:noerror" ->
            <<Plain("ExecutionStarted"), Entered(InputDoc("wf1")), Plain("TaskFailed"),
              Plain("ExecutionFailed")>>
      [] arn = "arn:exec:badinput" ->
            <<Plain("ExecutionStarted"), Entered(InputWithError("wf1")),
              Entered(InputNotJson), Plain("ExecutionFailed")>>
      [] arn = "arn:exec:long" ->
            <<Entered(InputWithError("wf1"))>>
                \o [i \in 1..MAX_EXECUTION_EVENTS |-> Plain("TaskScheduled")]
      [] OTHER -> <<>>

Reverse(s) == [i \in 1..Len(s) |-> s[Len(s) + 1 - i]]
Take(s, n) == SubSeq(s, 1, IF Len(s) < n THEN Len(s) ELSE n)

\* SFN_CLIENT.get_execution_history(executionArn, maxResults, reverseOrder=True)
get_execution_history(executionArn, maxResults) ==
    [events |-> Take(Reverse(History(executionArn)), maxResults)]

\* the events of a batch log stream, oldest first
LogStream(logname) ==
    CASE logname = "job/invalid" ->
            <<[message |-> "starting task"],
              [message |-> "cirruslib.errors.InvalidInput: bad geometry"]>>
      [] logname = "job/badformat" ->
            <<[message |-> "cirruslib.errors.BadFormat: missing header"]>>
      [] logname = "job/killed" -> <<[message |-> "Killed"]>>
      [] logname = "job/exit" -> <<[message |-> "exit code 1"]>>
      [] OTHER -> <<>>

\* LOG_CLIENT.get_log_events(logGroupName='/aws/batch/job', logStreamName)
get_log_events(logStreamName) == [events |-> LogStream(logStreamName)]

-----------------------------------------------------------------------------
(* Pure functions of the update-state handler *)

\* Catalog.from_payload(doc): the catalog of a workflow document, or an
\* exception when the document holds no workflow identity
Raised(exc) == [raised |-> TRUE, exc |-> exc]
Returned(value) == [raised |-> FALSE, value |-> value]

\* a slip in the catalog: every document is given the same workflow identity
FromPayloadShared(doc) ==
    IF "id" \in DOMAIN doc THEN Returned([id |-> "wf1"]) ELSE Raised("ValueError")

from_payload(doc) ==
    IF "id" \in DOMAIN doc THEN Returned([id |-> doc.id]) ELSE Raised("ValueError")

\* str.lstrip(chars): drops leading characters while they occur in chars
RECURSIVE lstrip(_, _)
lstrip(s, chars) ==
    IF Len(s) > 0 /\ StrContains(chars, SubSeq(s, 1, 1))
    THEN lstrip(Tail(s), chars)
    ELSE s

\* the index of the first sep in s, 0 when there is none
RECURSIVE IndexFrom(_, _, _)
IndexFrom(s, sep, i) ==
    IF i > Len(s) THEN 0
    ELSE IF SubSeq(s, i, i) = sep THEN i
    ELSE IndexFrom(s, sep, i + 1)

\* str.split(sep, maxsplit=1), sep one character
split1(s, sep) ==
    LET i == IndexFrom(s, sep, 1)
    IN IF i = 0 THEN <<s>> ELSE <<SubSeq(s, 1, i - 1), SubSeq(s, i + 1, Len(s))>>

\* get_error_from_batch(logname), given what LOG_CLIENT.get_log_events did:
\* resp.ok is FALSE when the call raised
get_error_from_batch(resp) ==
    IF ~resp.ok \/ Len(resp.logs.events) = 0
    THEN <<"Exception", "Unable to get Error Log">>
    ELSE LET msg == lstrip(Last(resp.logs.events).message, "cirruslib.errors.")
             parts == split1(msg, ":")
         IN IF Len(parts) > 1 THEN <<parts[1], parts[2]>> ELSE <<"Unknown", msg>>

\* the loop of get_execution_error over the events returned: the embedded
\* error of the first event that has one; an event without state-entered
\* details, without input or without error raises KeyError and is passed
\* over; any other exception ends the loop
RECURSIVE scan_events(_)
scan_events(events) ==
    IF Len(events) = 0 THEN None
    ELSE LET event == Head(events)
         IN IF "stateEnteredEventDetails" \notin DOMAIN event
            THEN scan_events(Tail(events))
            ELSE LET details == event.stateEnteredEventDetails
                 IN IF "input" \notin DOMAIN details
                    THEN scan_events(Tail(events))
                    ELSE LET doc == json_loads(details.input)
                         IN IF ~doc.ok \/ doc.kind # "object" THEN None
                            ELSE IF "error" \notin DOMAIN doc.value
                                 THEN scan_events(Tail(events))
                                 ELSE doc.value.error

\* get_execution_error(arn), given what SFN_CLIENT.get_execution_history did
get_execution_error(resp) ==
    IF ~resp.ok THEN None ELSE scan_events(resp.history.events)

\* a slip in parse_payload: the history is looked up whatever the status
HistoryArnAnyStatus(pl) ==
    IF "error" \in DOMAIN pl THEN PyNone
    ELSE IF ~("source" \in DOMAIN pl /\ pl.source = "aws.states") THEN PyNone
    ELSE IF ~("detail" \in DOMAIN pl /\ "status" \in DOMAIN pl.detail) THEN PyNone
    ELSE IF "executionArn" \notin DOMAIN pl.detail THEN PyNone
    ELSE pl.detail.executionArn

\* the execution handle parse_payload hands to get_execution_error, PyNone
\* when it does not call it
HistoryArn(pl) ==
    IF "error" \in DOMAIN pl THEN PyNone
    ELSE IF ~("source" \in DOMAIN pl /\ pl.source = "aws.states") THEN PyNone
    ELSE IF ~("detail" \in DOMAIN pl /\ "status" \in DOMAIN pl.detail) THEN PyNone
    ELSE IF pl.detail.status # FAILED THEN PyNone
    ELSE IF "executionArn" \notin DOMAIN pl.detail THEN PyNone
    ELSE pl.detail.executionArn

Parsed(catalog, status, error) == [catalog |-> catalog, status |-> status, error |-> error]

\* a slip in the except branch: the status is not cleared
DroppedAsFailed == Parsed(None, FAILED, None)

\* the except branch of parse_payload: return None, None, None
Dropped == Parsed(None, PyNone, None)

\* the execution-event branch of parse_payload
parse_execution_event(pl, resp) ==
    IF ~("detail" \in DOMAIN pl /\ "status" \in DOMAIN pl.detail) THEN Dropped
    ELSE LET status == pl.detail.status
         IN IF status = FAILED /\ "executionArn" \notin DOMAIN pl.detail THEN Dropped
            ELSE IF "input" \notin DOMAIN pl.detail THEN Dropped
            ELSE LET doc == json_loads(pl.detail.input)
                 IN IF ~doc.ok \/ doc.kind # "object" THEN Dropped
                    ELSE LET catalog == from_payload(doc.value)
                         IN IF catalog.raised THEN Dropped
                            ELSE Parsed(catalog.value, status,
                                        IF status = FAILED
                                        THEN get_execution_error(resp)
                                        ELSE None)

\* a slip in the order of the tests: the source marker is looked at first
ParseSourceFirst(pl, resp) ==
    IF "source" \in DOMAIN pl /\ pl.source = "aws.states"
    THEN parse_execution_event(pl, resp)
    ELSE IF "error" \in DOMAIN pl
         THEN LET catalog == from_payload(pl)
              IN IF catalog.raised THEN Dropped
                 ELSE Parsed(catalog.value, FAILED, pl.error)
         ELSE Dropped

\* parse_payload(payload): catalog, status and error of a payload
parse_payload(pl, resp) ==
    IF "error" \in DOMAIN pl
    THEN LET catalog == from_payload(pl)
         IN IF catalog.raised THEN Dropped
            ELSE Parsed(catalog.value, FAILED, pl.error)
    ELSE IF "source" \in DOMAIN pl /\ pl.source = "aws.states"
         THEN parse_execution_event(pl, resp)
         ELSE Dropped

SUCCESS == "SUCCESS"

\* STATUS_UPDATE_MAP: the statuses that are handled, and by which function
STATUS_UPDATE_MAP == (FAILED :> "workflow_failed") @@ (SUCCESS :> "workflow_completed")

\* a slip in workflow_failed: the batch log is read whatever the last
\* attempt's StatusReason
BatchLogNameAnyReason(error) ==
    IF error = None \/ "Cause" \notin DOMAIN error THEN PyNone
    ELSE LET doc == json_loads(error.Cause)
         IN IF ~doc.ok \/ doc.kind # "object" THEN PyNone
            ELSE LET cause == doc.value
                 IN IF "errorMessage" \in DOMAIN cause \/ "Attempts" \notin DOMAIN cause
                    THEN PyNone
                    ELSE IF Len(cause.Attempts) = 0 THEN PyNone
                    ELSE LET attempt == Last(cause.Attempts)
                         IN IF ~("Container" \in DOMAIN attempt
                                 /\ "LogStreamName" \in DOMAIN attempt.Container)
                            THEN PyNone
                            ELSE attempt.Container.LogStreamName

\* the log stream workflow_failed hands to get_error_from_batch, PyNone when
\* it does not call it
BatchLogName(error) ==
    IF error = None \/ "Cause" \notin DOMAIN error THEN PyNone
    ELSE LET doc == json_loads(error.Cause)
         IN IF ~doc.ok \/ doc.kind # "object" THEN PyNone
            ELSE LET cause == doc.value
                 IN IF "errorMessage" \in DOMAIN cause \/ "Attempts" \notin DOMAIN cause
                    THEN PyNone
                    ELSE IF Len(cause.Attempts) = 0 THEN PyNone
                    ELSE LET attempt == Last(cause.Attempts)
                         IN IF "StatusReason" \notin DOMAIN attempt THEN PyNone
                            ELSE IF ~StrContains(attempt.StatusReason, ESSENTIAL_EXIT)
                                 THEN PyNone
                            ELSE IF ~("Container" \in DOMAIN attempt
                                      /\ "LogStreamName" \in DOMAIN attempt.Container)
                                 THEN PyNone
                            ELSE attempt.Container.LogStreamName

\* error.get('Error', "unknown")
error_type_of(error) == IF "Error" \in DOMAIN error THEN error.Error ELSE "unknown"

\* workflow_failed up to the rendering of the error: the pair
\* <<error_type, error_msg>>, or the exception that leaves the function
error_descriptor(error, resp) ==
    IF error = None THEN Raised("AttributeError")
    ELSE IF "Cause" \notin DOMAIN error THEN Raised("KeyError")
    ELSE LET doc == json_loads(error.Cause)
         IN IF ~doc.ok \/ doc.kind # "object"
            THEN Returned(<<error_type_of(error), error.Cause>>)
            ELSE IF "errorMessage" \in DOMAIN doc.value
                 THEN Returned(<<error_type_of(error), doc.value.errorMessage>>)
                 ELSE IF BatchLogName(error) # PyNone
                      THEN Returned(get_error_from_batch(resp))
                      ELSE Returned(<<error_type_of(error), "unknown">>)

\* f"{error_type}: {error_msg}"
render(error_type, error_msg) == error_type \o ": " \o error_msg

-----------------------------------------------------------------------------
(* Pure functions of the workflow-failed handler *)

\* payload.get('error', {})
wf_error_of(pl) == IF "error" \in DOMAIN pl THEN pl.error ELSE [k \in {} |-> k]

\* the handler up to the rendering of the error: the pair
\* <<error_type, error_msg>>, or the exception that leaves the handler
wf_error_descriptor(error) ==
    IF error = None THEN Raised("AttributeError")
    ELSE IF "Cause" \notin DOMAIN error THEN Raised("KeyError")
    ELSE LET doc == json_loads(error.Cause)
         IN IF ~doc.ok \/ doc.kind # "object"
            THEN Returned(<<error_type_of(error), error.Cause>>)
            ELSE IF "errorMessage" \in DOMAIN doc.value
                 THEN Returned(<<error_type_of(error), doc.value.errorMessage>>)
                 ELSE Returned(<<error_type_of(error), "unknown">>)

-----------------------------------------------------------------------------
(* The events handed to the handlers *)

RawErrors ==
    { [Error |-> "InvalidInput", Cause |-> CauseText],
      [Error |-> "States.TaskFailed", Cause |-> CauseErrorMessage],
      [Cause |-> CauseErrorMessageEmpty],
      [Error |-> "States.Timeout"],
      [Error |-> "States.TaskFailed", Cause |-> CauseNumber],
      [Error |-> "States.TaskFailed", Cause |-> CauseEmptyObject],
      [Error |-> "States.TaskFailed", Cause |-> CauseAttemptsEmpty],
      [Error |-> "States.TaskFailed", Cause |-> CauseAttemptsNoReason],
      [Error |-> "States.TaskFailed", Cause |-> CauseAttemptsOtherReason],
      [Error |-> "States.TaskFailed", Cause |-> CauseAttemptsNoLog] }
    \cup { [Error |-> "States.TaskFailed", Cause |-> CauseBatch(n)] : n \in LogNames }

\* payloads that carry an `error` field
DirectPayloads ==
    { [id |-> "wf1", error |-> e] : e \in RawErrors }
    \cup { [id |-> "wf2", error |-> [Error |-> "InvalidInput", Cause |-> CauseText]],
           [id |-> "wf2", error |-> [Error |-> "States.TaskFailed",
                                     Cause |-> CauseBatch("job/invalid")]],
           [id |-> "wf1", error |-> None],
           [process |-> "publish",
            error |-> [Error |-> "InvalidInput", Cause |-> CauseText]],
           [id |-> "wf1", error |-> [Error |-> "InvalidInput", Cause |-> CauseText],
            source |-> "aws.states",
            detail |-> [status |-> SUCCESS, executionArn |-> "arn:exec:noerror",
                        input |-> InputDoc("wf2")]] }

ExecutionEvent(status, arn, input) ==
    [source |-> "aws.states",
     detail |-> [status |-> status, executionArn |-> arn, input |-> input]]

\* payloads of the execution engine
ExecutionPayloads ==
    { ExecutionEvent(st, "arn:exec:noerror", InputDoc("wf1")) :
        st \in {"SUCCEEDED", SUCCESS, "RUNNING", "ABORTED", "TIMED_OUT", "INVALID"} }
    \cup { ExecutionEvent(st, "arn:exec:noerror", InputDoc("wf2")) :
             st \in {"SUCCEEDED", SUCCESS} }
    \cup { ExecutionEvent(FAILED, arn, InputDoc("wf1")) : arn \in Arns }
    \cup { ExecutionEvent(FAILED, "arn:exec:invalid", InputDoc("wf2")),
           ExecutionEvent(FAILED, "arn:exec:invalid", InputNotJson),
           ExecutionEvent(SUCCESS, "arn:exec:noerror", InputNotJson),
           ExecutionEvent("SUCCEEDED", "arn:exec:noerror", InputNoId),
           [source |-> "aws.states"],
           [source |-> "aws.states",
            detail |-> [status |-> FAILED, input |-> InputDoc("wf1")]],
           [source |-> "aws.states",
            detail |-> [executionArn |-> "arn:exec:noerror", input |-> InputDoc("wf1")]] }

\* payloads of neither shape
OtherPayloads ==
    { [id |-> "wf1"],
      [source |-> "aws.ec2",
       detail |-> [status |-> FAILED, executionArn |-> "arn:exec:invalid",
                   input |-> InputDoc("wf1")]] }

\* what each handler is handed: the update-state handler every payload, the
\* workflow-failed task the payloads of a failed workflow
Events ==
    { <<UPDATE_STATE, pl>> : pl \in DirectPayloads \cup ExecutionPayloads \cup OtherPayloads }
    \cup { <<WORKFLOW_FAILED, pl>> : pl \in DirectPayloads \cup {[id |-> "wf1"]} }

-----------------------------------------------------------------------------
(* State *)

NoLocals ==
    [catalog |-> None, status |-> PyNone, error |-> None, error_type |-> PyNone,
     error_msg |-> PyNone, error_text |-> PyNone, notification_topic_arn |-> PyNone,
     item |-> None, exc |-> PyNone]

\* the record of a workflow identity before its terminal event: each workflow
\* has its own collections
InitialRecord(i) ==
    [collections |-> IF i = "wf1" THEN "landsat" ELSE "sentinel",
     workflow |-> "publish", state |-> "PROCESSING", last_error |-> ""]

Init ==
    /\ FAILED_TOPIC_ARN \in {PyNone, "arn:aws:sns:failed"}
    /\ INVALID_TOPIC_ARN \in {PyNone, "arn:aws:sns:invalid"}
    /\ statedb = [i \in IDs |-> InitialRecord(i)]
    /\ sns = <<>>
    /\ pc = [p \in Procs |-> "idle"]
    /\ entry = [p \in Procs |-> PyNone]
    /\ payload = [p \in Procs |-> None]
    /\ locals = [p \in Procs |-> NoLocals]
    /\ calls = [p \in Procs |-> <<>>]
    /\ outcome = [p \in Procs |-> "none"]
    /\ past = [p \in Procs |-> <<>>]

Call(op, key, arg, body, ok) ==
    [op |-> op, key |-> key, arg |-> arg, body |-> body, ok |-> ok]

FirstStep(e) == IF e = UPDATE_STATE THEN "parse_payload" ELSE "wf_from_payload"

\* the handler returns
Return(p) ==
    /\ pc' = [pc EXCEPT ![p] = "done"]
    /\ outcome' = [outcome EXCEPT ![p] = "returned"]

\* an exception leaves the handler
Raise(p) ==
    /\ pc' = [pc EXCEPT ![p] = "done"]
    /\ outcome' = [outcome EXCEPT ![p] = "raised"]

\* a caller hands one of the events to a handler
DeliverFrom(p, events) ==
    /\ pc[p] = "idle"
    /\ \E ev \in events :
        /\ entry' = [entry EXCEPT ![p] = ev[1]]
        /\ payload' = [payload EXCEPT ![p] = ev[2]]
        /\ pc' = [pc EXCEPT ![p] = FirstStep(ev[1])]
    /\ outcome' = [outcome EXCEPT ![p] = "running"]
    /\ UNCHANGED <<FAILED_TOPIC_ARN, INVALID_TOPIC_ARN, statedb, sns, locals, calls, past>>

\* the caller hands an event to a handler
Deliver(p) == DeliverFrom(p, Events)

\* the caller hands the same event to the handler again (a retry after an
\* exception, or a duplicate delivery)
Redeliver(p) ==
    /\ pc[p] = "done"
    /\ Len(past[p]) + 1 < MaxDeliveries
    /\ past' = [past EXCEPT ![p] =
                  Append(@, [calls |-> calls[p], outcome |-> outcome[p],
                             error_text |-> locals[p].error_text])]
    /\ pc' = [pc EXCEPT ![p] = FirstStep(entry[p])]
    /\ outcome' = [outcome EXCEPT ![p] = "running"]
    /\ locals' = [locals EXCEPT ![p] = NoLocals]
    /\ calls' = [calls EXCEPT ![p] = <<>>]
    /\ UNCHANGED <<FAILED_TOPIC_ARN, INVALID_TOPIC_ARN, statedb, sns, entry, payload>>

-----------------------------------------------------------------------------
(* Steps shared by the two handlers: the code is the same in both files *)

Goto(p, label) ==
    IF label = "return" THEN Return(p)
    ELSE IF label = "raise" THEN Raise(p)
    ELSE /\ pc' = [pc EXCEPT ![p] = label]
         /\ UNCHANGED outcome

Record(p, call) == calls' = [calls EXCEPT ![p] = Append(@, call)]

\* a slip in the choice of the method: every failure is marked failed
AlwaysSetFailed(error_type) == "set_failed"

\* the state-database method the error type selects
transition_of(error_type) ==
    IF error_type = "InvalidInput" THEN "set_invalid" ELSE "set_failed"

\* the state a state-database method leaves the record in
state_of(op) ==
    CASE op = "set_invalid" -> "INVALID"
      [] op = "set_failed" -> "FAILED"
      [] op = "set_completed" -> "COMPLETED"

\* a slip in the choice of the topic: an unset topic falls back on the other
TopicWithFallback(error_type) ==
    IF error_type = "InvalidInput"
    THEN IF INVALID_TOPIC_ARN # PyNone THEN INVALID_TOPIC_ARN ELSE FAILED_TOPIC_ARN
    ELSE IF FAILED_TOPIC_ARN # PyNone THEN FAILED_TOPIC_ARN ELSE INVALID_TOPIC_ARN

\* notification_topic_arn, as the error type selects it
topic_of(error_type) ==
    IF error_type = "InvalidInput" THEN INVALID_TOPIC_ARN ELSE FAILED_TOPIC_ARN

\* a slip after the state-database call: its exception is swallowed
IgnoresStoreError(ok, topic, next) ==
    IF topic # PyNone THEN next ELSE "return"

\* where the handler goes after the state-database call: the exception is
\* raised again; without a topic the handler returns
after_set_state(ok, topic, next) ==
    IF ~ok THEN "raise"
    ELSE IF topic # PyNone THEN next ELSE "return"

\* a slip after get_dbitem or publish: the exception is swallowed
SwallowsNotifyError(ok, next) == IF ~ok THEN "return" ELSE next

\* where the handler goes after get_dbitem or publish
after_notify_call(ok, next) == IF ~ok THEN "raise" ELSE next

\* json.dumps(item)
json_dumps(item) ==
    "{\"collections\": \"" \o item.collections \o "\", \"workflow\": \"" \o item.workflow
        \o "\", \"state\": \"" \o item.state \o "\", \"last_error\": \"" \o item.last_error
        \o "\"}"

\* statedb.set_invalid(catalog['id'], error) or statedb.set_failed(...), and the
\* choice of the topic
SetState(p, next) ==
    \E ok \in BOOLEAN :
        LET l == locals[p]
            id == l.catalog.id
            op == transition_of(l.error_type)
            topic == topic_of(l.error_type)
        IN /\ Record(p, Call(op, id, l.error_text, "", ok))
           /\ statedb' = IF ok
                         THEN [statedb EXCEPT ![id].state = state_of(op),
                                              ![id].last_error = l.error_text]
                         ELSE statedb
           /\ locals' = IF ok
                        THEN [locals EXCEPT ![p].notification_topic_arn = topic]
                        ELSE [locals EXCEPT ![p].exc = "StateDBError"]
           /\ Goto(p, after_set_state(ok, topic, next))
           /\ UNCHANGED <<FAILED_TOPIC_ARN, INVALID_TOPIC_ARN, sns, entry, payload, past>>

\* item = statedb.dbitem_to_item(statedb.get_dbitem(catalog['id']))
GetDbitem(p, next) ==
    \E ok \in BOOLEAN :
        LET id == locals[p].catalog.id
        IN /\ Record(p, Call("get_dbitem", id, "", "", ok))
           /\ locals' = IF ok
                        THEN [locals EXCEPT ![p].item = statedb[id]]
                        ELSE [locals EXCEPT ![p].exc = "StateDBError"]
           /\ Goto(p, after_notify_call(ok, next))
           /\ UNCHANGED <<FAILED_TOPIC_ARN, INVALID_TOPIC_ARN, statedb, sns, entry,
                          payload, past>>

\* SNS_CLIENT.publish(TopicArn, Message, MessageAttributes)
Publish(p) ==
    \E ok \in BOOLEAN :
        LET l == locals[p]
            message == json_dumps(l.item)
        IN /\ Record(p, Call("publish", l.notification_topic_arn, l.error_text, message, ok))
           /\ sns' = IF ok
                     THEN Append(sns, [TopicArn |-> l.notification_topic_arn,
                                       Message |-> message,
                                       collections |-> l.item.collections,
                                       workflow |-> l.item.workflow,
                                       error |-> l.error_text])
                     ELSE sns
           /\ locals' = IF ok THEN locals ELSE [locals EXCEPT ![p].exc = "ClientError"]
           /\ Goto(p, after_notify_call(ok, "return"))
           /\ UNCHANGED <<FAILED_TOPIC_ARN, INVALID_TOPIC_ARN, statedb, entry, payload, past>>

-----------------------------------------------------------------------------
(* The update-state handler *)

\* catalog, status, error = parse_payload(payload)
US_ParsePayload(p) ==
    /\ pc[p] = "parse_payload"
    /\ LET arn == HistoryArn(payload[p])
       IN \E ok \in IF arn = PyNone THEN {TRUE} ELSE BOOLEAN :
            LET resp == [ok |-> ok,
                         history |-> get_execution_history(arn, MAX_EXECUTION_EVENTS)]
                r == parse_payload(payload[p], resp)
            IN /\ locals' = [locals EXCEPT ![p].catalog = r.catalog,
                                           ![p].status = r.status,
                                           ![p].error = r.error]
               /\ calls' = IF arn = PyNone THEN calls
                           ELSE [calls EXCEPT ![p] =
                                   Append(@, Call("get_execution_history", arn, "", "", ok))]
    /\ pc' = [pc EXCEPT ![p] = "dispatch"]
    /\ UNCHANGED <<FAILED_TOPIC_ARN, INVALID_TOPIC_ARN, statedb, sns, entry, payload,
                   outcome, past>>

\* if status not in STATUS_UPDATE_MAP: return; STATUS_UPDATE_MAP[status](...)
US_Dispatch(p) ==
    /\ pc[p] = "dispatch"
    /\ Goto(p, IF locals[p].status \in DOMAIN STATUS_UPDATE_MAP
               THEN STATUS_UPDATE_MAP[locals[p].status]
               ELSE "return")
    /\ UNCHANGED <<FAILED_TOPIC_ARN, INVALID_TOPIC_ARN, statedb, sns, entry, payload,
                   locals, calls, past>>

\* workflow_completed(catalog, error)
US_WorkflowCompleted(p) ==
    /\ pc[p] = "workflow_completed"
    /\ \E ok \in BOOLEAN :
        LET id == locals[p].catalog.id
        IN /\ Record(p, Call("set_completed", id, "", "", ok))
           /\ statedb' = IF ok
                         THEN [statedb EXCEPT ![id].state = state_of("set_completed")]
                         ELSE statedb
           /\ locals' = IF ok THEN locals ELSE [locals EXCEPT ![p].exc = "StateDBError"]
           /\ Goto(p, IF ok THEN "return" ELSE "raise")
    /\ UNCHANGED <<FAILED_TOPIC_ARN, INVALID_TOPIC_ARN, sns, entry, payload, past>>

\* workflow_failed(catalog, error) up to error = f"{error_type}: {error_msg}"
US_WorkflowFailed(p) ==
    /\ pc[p] = "workflow_failed"
    /\ LET logname == BatchLogName(locals[p].error)
       IN \E ok \in IF logname = PyNone THEN {TRUE} ELSE BOOLEAN :
            LET resp == [ok |-> ok, logs |-> get_log_events(logname)]
                d == error_descriptor(locals[p].error, resp)
            IN /\ calls' = IF logname = PyNone THEN calls
                           ELSE [calls EXCEPT ![p] =
                                   Append(@, Call("get_log_events", logname, "", "", ok))]
               /\ locals' = IF d.raised
                            THEN [locals EXCEPT ![p].exc = d.exc]
                            ELSE [locals EXCEPT
                                    ![p].error_type = d.value[1],
                                    ![p].error_msg = d.value[2],
                                    ![p].error_text = render(d.value[1], d.value[2])]
               /\ Goto(p, IF d.raised THEN "raise" ELSE "set_state")
    /\ UNCHANGED <<FAILED_TOPIC_ARN, INVALID_TOPIC_ARN, statedb, sns, entry, payload, past>>

US_SetState(p) == pc[p] = "set_state" /\ SetState(p, "get_dbitem")

US_GetDbitem(p) == pc[p] = "get_dbitem" /\ GetDbitem(p, "publish")

US_Publish(p) == pc[p] = "publish" /\ Publish(p)

-----------------------------------------------------------------------------
(* The workflow-failed task handler *)

\* catalog = Catalog.from_payload(payload); error = payload.get('error', {})
Task_FromPayload(p) ==
    /\ pc[p] = "wf_from_payload"
    /\ LET catalog == from_payload(payload[p])
       IN /\ locals' = IF catalog.raised
                       THEN [locals EXCEPT ![p].exc = catalog.exc]
                       ELSE [locals EXCEPT ![p].catalog = catalog.value,
                                           ![p].error = wf_error_of(payload[p])]
          /\ Goto(p, IF catalog.raised THEN "raise" ELSE "wf_errors")
    /\ UNCHANGED <<FAILED_TOPIC_ARN, INVALID_TOPIC_ARN, statedb, sns, entry, payload,
                   calls, past>>

\* the handler from `# error type` to error = f"{error_type}: {error_msg}"
Task_Errors(p) ==
    /\ pc[p] = "wf_errors"
    /\ LET d == wf_error_descriptor(locals[p].error)
       IN /\ locals' = IF d.raised
                       THEN [locals EXCEPT ![p].exc = d.exc]
                       ELSE [locals EXCEPT
                               ![p].error_type = d.value[1],
                               ![p].error_msg = d.value[2],
                               ![p].error_text = render(d.value[1], d.value[2])]
          /\ Goto(p, IF d.raised THEN "raise" ELSE "wf_set_state")
    /\ UNCHANGED <<FAILED_TOPIC_ARN, INVALID_TOPIC_ARN, statedb, sns, entry, payload,
                   calls, past>>

Task_SetState(p) == pc[p] = "wf_set_state" /\ SetState(p, "wf_get_dbitem")

Task_GetDbitem(p) == pc[p] = "wf_get_dbitem" /\ GetDbitem(p, "wf_publish")

Task_Publish(p) == pc[p] = "wf_publish" /\ Publish(p)

-----------------------------------------------------------------------------
(* One caller, handing one event to one handler, one delivery after the other *)

Caller == "p1"

Next ==
    \/ Deliver(Caller)
    \/ Redeliver(Caller)
    \/ US_ParsePayload(Caller)
    \/ US_Dispatch(Caller)
    \/ US_WorkflowCompleted(Caller)
    \/ US_WorkflowFailed(Caller)
    \/ US_SetState(Caller)
    \/ US_GetDbitem(Caller)
    \/ US_Publish(Caller)
    \/ Task_FromPayload(Caller)
    \/ Task_Errors(Caller)
    \/ Task_SetState(Caller)
    \/ Task_GetDbitem(Caller)
    \/ Task_Publish(Caller)

Spec == Init /\ [][Next]_vars

-----------------------------------------------------------------------------
(* Two invocations at once: the hosting runtime runs one handler per event, *)
(* and the external calls of two invocations interleave                     *)

\* the events the two invocations are handed: both handlers, both workflow
\* identities, every kind of external call
ConcEvents ==
    { <<UPDATE_STATE, [id |-> "wf1", error |-> [Error |-> "InvalidInput", Cause |-> CauseText]]>>,
      <<UPDATE_STATE, [id |-> "wf2", error |-> [Error |-> "InvalidInput", Cause |-> CauseText]]>>,
      <<UPDATE_STATE, [id |-> "wf1", error |-> [Error |-> "States.TaskFailed",
                                                Cause |-> CauseBatch("job/badformat")]]>>,
      <<UPDATE_STATE, ExecutionEvent(FAILED, "arn:exec:timeout", InputDoc("wf1"))>>,
      <<UPDATE_STATE, ExecutionEvent(SUCCESS, "arn:exec:noerror", InputDoc("wf1"))>>,
      <<UPDATE_STATE, ExecutionEvent(SUCCESS, "arn:exec:noerror", InputDoc("wf2"))>>,
      <<WORKFLOW_FAILED, [id |-> "wf1", error |-> [Error |-> "States.TaskFailed",
                                                   Cause |-> CauseErrorMessage]]>>,
      <<WORKFLOW_FAILED, [id |-> "wf2", error |-> [Error |-> "InvalidInput",
                                                   Cause |-> CauseText]]>> }

ConcDeliver(p) == DeliverFrom(p, ConcEvents)

ConcNext ==
    \E p \in Procs :
        \/ ConcDeliver(p)
        \/ US_ParsePayload(p)
        \/ US_Dispatch(p)
        \/ US_WorkflowCompleted(p)
        \/ US_WorkflowFailed(p)
        \/ US_SetState(p)
        \/ US_GetDbitem(p)
        \/ US_Publish(p)
        \/ Task_FromPayload(p)
        \/ Task_Errors(p)
        \/ Task_SetState(p)
        \/ Task_GetDbitem(p)
        \/ Task_Publish(p)

ConcSpec == Init /\ [][ConcNext]_vars

-----------------------------------------------------------------------------
(* Vocabulary of the properties *)

Done(p) == pc[p] = "done"

SetOps == {"set_failed", "set_invalid"}
StoreOps == SetOps \cup {"set_completed", "get_dbitem"}

\* the calls of the running delivery whose operation is one of ops, in order
CallsOf(p, ops) == SelectSeq(calls[p], LAMBDA c : c.op \in ops)

\* the delivery has made no state-store call and no publish
NoStoreNoPublish(p) == CallsOf(p, StoreOps \cup {"publish"}) = <<>>

\* a payload of the execution-event shape that carries a nested status
IsExecutionEvent(pl) ==
    /\ "error" \notin DOMAIN pl
    /\ "source" \in DOMAIN pl /\ pl.source = "aws.states"
    /\ "detail" \in DOMAIN pl /\ "status" \in DOMAIN pl.detail

\* the workflow identity the `input` document of an execution event decodes
\* to, PyNone when it decodes to none
InputIdentity(pl) ==
    IF "input" \notin DOMAIN pl.detail THEN PyNone
    ELSE LET doc == json_loads(pl.detail.input)
         IN IF doc.ok /\ doc.kind = "object" /\ "id" \in DOMAIN doc.value
            THEN doc.value.id
            ELSE PyNone

\* a payload of neither shape, or of a shape that cannot be decoded
Malformed(pl) ==
    IF "error" \in DOMAIN pl THEN "id" \notin DOMAIN pl
    ELSE IF ~("source" \in DOMAIN pl /\ pl.source = "aws.states") THEN TRUE
    ELSE IF ~IsExecutionEvent(pl) THEN TRUE
    ELSE \/ InputIdentity(pl) = PyNone
         \/ pl.detail.status = FAILED /\ "executionArn" \notin DOMAIN pl.detail

\* how many messages the earlier deliveries of the event published
RECURSIVE PublishedIn(_)
PublishedIn(deliveries) ==
    IF deliveries = <<>> THEN 0
    ELSE Len(SelectSeq(Head(deliveries).calls, LAMBDA c : c.op = "publish" /\ c.ok))
         + PublishedIn(Tail(deliveries))

PublishedBefore(p) == PublishedIn(past[p])

-----------------------------------------------------------------------------
(* C1 *)

\* C1: an execution event with nested status SUCCEEDED whose input decodes to
\* a workflow identity makes the update-state handler call set_completed for
\* that identity exactly once, call neither set_failed nor set_invalid and
\* publish nothing.
C1_SucceededCompletes ==
    \A p \in Procs :
        ( /\ Done(p) /\ entry[p] = UPDATE_STATE
          /\ IsExecutionEvent(payload[p])
          /\ payload[p].detail.status = "SUCCEEDED"
          /\ InputIdentity(payload[p]) # PyNone )
        => /\ Len(CallsOf(p, {"set_completed"})) = 1
           /\ CallsOf(p, {"set_completed"})[1].key = InputIdentity(payload[p])
           /\ CallsOf(p, SetOps \cup {"publish"}) = <<>>

-----------------------------------------------------------------------------
(* C2 *)

\* C2: when an execution event has nested status FAILED and the history
\* resolver returns none, handling continues: no exception of the extraction
\* leaves the handler, and set_failed is called for the identity with the
\* text "unknown: unknown".
C2_NoHistoryErrorStillFails ==
    \A p \in Procs :
        ( /\ Done(p) /\ entry[p] = UPDATE_STATE
          /\ IsExecutionEvent(payload[p])
          /\ payload[p].detail.status = FAILED
          /\ ~Malformed(payload[p])
          /\ locals[p].error = None )
        => /\ locals[p].exc \in {PyNone, "StateDBError", "ClientError"}
           /\ Len(CallsOf(p, SetOps)) = 1
           /\ CallsOf(p, SetOps)[1] =
                Call("set_failed", InputIdentity(payload[p]), "unknown: unknown", "",
                     CallsOf(p, SetOps)[1].ok)

-----------------------------------------------------------------------------
(* C3 *)

\* failure handling was reached with a raw error object
ReachedFailureHandling(p) ==
    /\ locals[p].catalog # None
    /\ locals[p].error # None
    /\ \/ entry[p] = WORKFLOW_FAILED /\ "error" \in DOMAIN payload[p]
       \/ entry[p] = UPDATE_STATE /\ locals[p].status = FAILED

\* C3: for every raw error object that reaches failure handling, extraction
\* produces a (type, message) descriptor and the state-store transition is then
\* attempted; no exception raised during extraction reaches the caller.
C3_ExtractionNeverRaises ==
    \A p \in Procs :
        (Done(p) /\ ReachedFailureHandling(p))
        => /\ locals[p].error_text # PyNone
           /\ Len(CallsOf(p, SetOps)) = 1
           /\ locals[p].exc \in {PyNone, "StateDBError", "ClientError"}

-----------------------------------------------------------------------------
(* C4 *)

\* C4: for a payload of neither shape, and for a payload of either shape
\* that cannot be decoded, the update-state handler returns without raising,
\* makes no state-store call and publishes nothing; the records and the topics
\* are left as they were.
C4_MalformedIsDropped ==
    \A p \in Procs :
        (entry[p] = UPDATE_STATE /\ Malformed(payload[p]))
        => /\ NoStoreNoPublish(p)
           /\ \A i \in 1..Len(past[p]) :
                /\ past[p][i].outcome = "returned"
                /\ SelectSeq(past[p][i].calls,
                             LAMBDA c : c.op \in StoreOps \cup {"publish"}) = <<>>
           /\ Done(p) => outcome[p] = "returned"
           /\ sns = <<>>
           /\ \A i \in IDs : statedb[i] = InitialRecord(i)

\* a FAILED execution event whose input is no JSON was dropped, after the
\* history lookup
C4_Witness ==
    /\ Done("p1") /\ entry["p1"] = UPDATE_STATE
    /\ Malformed(payload["p1"])
    /\ IsExecutionEvent(payload["p1"])
    /\ Len(calls["p1"]) = 1
    /\ outcome["p1"] = "returned"

-----------------------------------------------------------------------------
(* C5 *)

\* the delivery is past the state-store transition of failure handling
PastTransition(p) ==
    /\ locals[p].error_text # PyNone
    /\ pc[p] \notin {"set_state", "wf_set_state"}

\* C5: in every failure-handling run the final error type selects the
\* transition and the topic: "InvalidInput" means set_invalid and only the
\* invalid topic, anything else set_failed and only the failure topic;
\* set_invalid and set_failed are never both called in one run.
C5_TypeSelectsTransitionAndTopic ==
    \A p \in Procs :
        LET invalid == locals[p].error_type = "InvalidInput"
            sets == CallsOf(p, SetOps)
            pubs == CallsOf(p, {"publish"})
        IN /\ Len(sets) <= 1
           /\ PastTransition(p) =>
                /\ Len(sets) = 1
                /\ sets[1].op = IF invalid THEN "set_invalid" ELSE "set_failed"
                /\ sets[1].key = locals[p].catalog.id
           /\ \A i \in 1..Len(pubs) :
                /\ pubs[i].key # PyNone
                /\ invalid => pubs[i].key = INVALID_TOPIC_ARN /\ pubs[i].key # FAILED_TOPIC_ARN
                /\ ~invalid => pubs[i].key = FAILED_TOPIC_ARN /\ pubs[i].key # INVALID_TOPIC_ARN

\* a batch failure whose log says InvalidInput was marked invalid and
\* published to the invalid topic, with a failure topic configured
C5_Witness ==
    /\ Done("p1") /\ outcome["p1"] = "returned"
    /\ FAILED_TOPIC_ARN # PyNone
    /\ "error" \in DOMAIN payload["p1"]
    /\ payload["p1"].error # None
    /\ error_type_of(payload["p1"].error) = "States.TaskFailed"
    /\ locals["p1"].error_type = "InvalidInput"
    /\ Len(sns) = 1 /\ sns[1].TopicArn = INVALID_TOPIC_ARN
    /\ statedb["wf1"].state = "INVALID"

-----------------------------------------------------------------------------
(* C6 *)

\* what the workflow-failed handler does on a payload before its state-store
\* call: raises, or goes on to the transition with an error text
TaskDescriptor(pl) ==
    IF from_payload(pl).raised THEN Raised(from_payload(pl).exc)
    ELSE wf_error_descriptor(wf_error_of(pl))

\* C6: the two entry points do not diverge: on a payload that carries an
\* `error` field the update-state handler raises before the transition exactly
\* when the workflow-failed handler does, and otherwise makes the state-store
\* transition the workflow-failed handler makes: same method, same identity,
\* same rendered error text.
C6_EntryPointsAgree ==
    \A p \in Procs :
        ( /\ Done(p) /\ entry[p] = UPDATE_STATE
          /\ "error" \in DOMAIN payload[p] /\ "id" \in DOMAIN payload[p] )
        => LET d == TaskDescriptor(payload[p])
               sets == CallsOf(p, SetOps)
           IN IF d.raised
              THEN sets = <<>> /\ outcome[p] = "raised"
              ELSE /\ Len(sets) = 1
                   /\ sets[1].op = transition_of(d.value[1])
                   /\ sets[1].key = payload[p].id
                   /\ sets[1].arg = render(d.value[1], d.value[2])

-----------------------------------------------------------------------------
(* C7 *)

\* C7: if set_failed or set_invalid fails, the failure is raised to the
\* caller and, in that invocation, the record is not read again and nothing is
\* published: the failed call is the last call of the invocation.
C7_StoreFailureIsFatal ==
    \A p \in Procs :
        \A i \in 1..Len(calls[p]) :
            (calls[p][i].op \in SetOps /\ ~calls[p][i].ok)
            => /\ i = Len(calls[p])
               /\ Done(p) /\ outcome[p] = "raised"
               /\ locals[p].exc = "StateDBError"
               /\ Len(sns) = PublishedBefore(p)

\* set_invalid failed with the invalid topic configured
C7_Witness ==
    /\ Done("p1") /\ outcome["p1"] = "raised"
    /\ INVALID_TOPIC_ARN # PyNone
    /\ Len(calls["p1"]) > 0
    /\ Last(calls["p1"]).op = "set_invalid"
    /\ ~Last(calls["p1"]).ok

-----------------------------------------------------------------------------
(* C8 *)

\* the calls of a delivery whose transition succeeded and whose reading of
\* the record, or whose publish, then failed
NotifyFailed(cs) ==
    /\ Len(cs) > 0
    /\ Last(cs).op \in {"get_dbitem", "publish"}
    /\ ~Last(cs).ok

\* the state-store transition among the calls of a delivery
SetCallOf(cs) == SelectSeq(cs, LAMBDA c : c.op \in SetOps)[1]

\* the record holds what a transition wrote
Holds(w) ==
    /\ statedb[w.key].state = state_of(w.op)
    /\ statedb[w.key].last_error = w.arg

\* a delivery that fails after its transition raises and leaves the record
\* as the transition wrote it
RaisesAndKeepsRecord(p) ==
    (Done(p) /\ NotifyFailed(calls[p]))
    => /\ outcome[p] = "raised"
       /\ SetCallOf(calls[p]).ok
       /\ Holds(SetCallOf(calls[p]))

\* a publish of the delivery whose calls are cs succeeded
PublishSucceeded(cs) == \E j \in 1..Len(cs) : cs[j].op = "publish" /\ cs[j].ok

\* the batch-log lookups among the calls of a delivery, with their results
LogLookups(cs) == SelectSeq(cs, LAMBDA c : c.op = "get_log_events")

\* earlier delivery i of the event failed behind its transition, and the
\* event was delivered again until, in the running delivery, a publish
\* succeeded
RedeliveredUntilPublished(p, i) ==
    /\ NotifyFailed(past[p][i].calls)
    /\ Done(p) /\ PublishSucceeded(calls[p])

\* a notification for the event has been published and the record holds the
\* status and the error text that earlier delivery i wrote
PublishedAndRecordKept(p, i) ==
    /\ Len(sns) > PublishedBefore(p)
    /\ Holds(SetCallOf(past[p][i].calls))

-----------------------------------------------------------------------------
(* C9 *)

\* C9: when the topic selected for the outcome is unset, failure handling
\* performs the transition and then neither reads the record again nor
\* publishes anything; the other topic is never used in its place.
C9_UnsetTopicMeansNoNotification ==
    \A p \in Procs :
        LET sets == CallsOf(p, SetOps)
        IN ( /\ Len(sets) = 1 /\ sets[1].ok
             /\ (IF sets[1].op = "set_invalid" THEN INVALID_TOPIC_ARN
                 ELSE FAILED_TOPIC_ARN) = PyNone )
           => /\ CallsOf(p, {"get_dbitem", "publish"}) = <<>>
              /\ Done(p) /\ outcome[p] = "returned"
              /\ Len(sns) = PublishedBefore(p)

\* a workflow was marked invalid with no invalid topic and a failure topic
C9_Witness ==
    /\ Done("p1") /\ outcome["p1"] = "returned"
    /\ INVALID_TOPIC_ARN = PyNone /\ FAILED_TOPIC_ARN # PyNone
    /\ Len(calls["p1"]) > 0
    /\ Last(calls["p1"]).op = "set_invalid" /\ Last(calls["p1"]).ok
    /\ statedb["wf1"].state = "INVALID"

-----------------------------------------------------------------------------
(* C10 *)

\* C10: an execution event whose nested status is neither SUCCEEDED nor
\* FAILED is a no-op: the handler returns without raising, makes no
\* state-store call and publishes nothing.
C10_OtherStatusIsNoOp ==
    \A p \in Procs :
        ( /\ Done(p) /\ entry[p] = UPDATE_STATE
          /\ IsExecutionEvent(payload[p])
          /\ payload[p].detail.status \notin {"SUCCEEDED", FAILED} )
        => /\ outcome[p] = "returned"
           /\ NoStoreNoPublish(p)

-----------------------------------------------------------------------------
(* C11 *)

\* the workflow identity an event is about, PyNone when it names none
PayloadIdentity(e, pl) ==
    IF "error" \in DOMAIN pl \/ e = WORKFLOW_FAILED
    THEN IF "id" \in DOMAIN pl THEN pl.id ELSE PyNone
    ELSE IF IsExecutionEvent(pl) THEN InputIdentity(pl)
    ELSE PyNone

IdentityOf(p) == PayloadIdentity(entry[p], payload[p])

\* the record of identity i after the calls cs of one invocation, no other
\* invocation having touched it
RecordAfter(i, cs) ==
    LET done == SelectSeq(cs, LAMBDA c : c.op \in SetOps \cup {"set_completed"} /\ c.ok)
    IN IF done = <<>> THEN InitialRecord(i)
       ELSE LET w == Last(done)
            IN [InitialRecord(i) EXCEPT
                  !.state = state_of(w.op),
                  !.last_error = IF w.op \in SetOps THEN w.arg ELSE @]

\* the messages SNS accepted from the calls cs of one invocation
Notifications(cs) ==
    LET pubs == SelectSeq(cs, LAMBDA c : c.op = "publish" /\ c.ok)
    IN [k \in 1..Len(pubs) |-> [TopicArn |-> pubs[k].key, Message |-> pubs[k].body,
                                 error |-> pubs[k].arg]]

\* the messages SNS accepted about identity i
NotificationsAbout(i) ==
    LET about == SelectSeq(sns, LAMBDA m : m.collections = InitialRecord(i).collections)
    IN [k \in 1..Len(about) |-> [TopicArn |-> about[k].TopicArn,
                                  Message |-> about[k].Message,
                                  error |-> about[k].error]]

\* C11: when two invocations run at once on events for different workflow
\* identities, whatever the interleaving of their external calls, each reads
\* and writes only the record of its own identity: the record holds what the
\* invocation's own calls wrote, every message body is the record as those
\* calls left it, and the notifications about the identity are those of that
\* invocation, as if it had run alone.
C11_DifferentIdentitiesDoNotInterfere ==
    \A p \in Procs : \A q \in Procs \ {p} :
        LET i == IdentityOf(p)
        IN (pc[p] # "idle" /\ i # PyNone /\ IdentityOf(q) # i)
           => /\ \A k \in 1..Len(calls[p]) :
                    /\ calls[p][k].op \in StoreOps => calls[p][k].key = i
                    /\ calls[p][k].op = "publish" =>
                          calls[p][k].body = json_dumps(RecordAfter(i, SubSeq(calls[p], 1, k)))
              /\ statedb[i] = RecordAfter(i, calls[p])
              /\ NotificationsAbout(i) = Notifications(calls[p])

\* two failure events for different identities, handled at once by the two
\* handlers; both published, the second identity's notification first
C11_Witness ==
    /\ Done("p1") /\ Done("p2")
    /\ entry["p1"] = UPDATE_STATE /\ entry["p2"] = WORKFLOW_FAILED
    /\ IdentityOf("p1") = "wf1" /\ IdentityOf("p2") = "wf2"
    /\ Len(sns) = 2
    /\ sns[1].collections = InitialRecord("wf2").collections
    /\ statedb["wf1"].state = "FAILED" /\ statedb["wf2"].state = "INVALID"

-----------------------------------------------------------------------------
(* C12 *)

\* every earlier delivery of the event returned
EarlierReturned(p) == \A k \in 1..Len(past[p]) : past[p][k].outcome = "returned"

\* C12: dispatching the same successful-completion event (nested status
\* SUCCEEDED) twice leaves the record of its identity completed after the
\* first dispatch and after the second, and publishes nothing in either.
C12_CompletionTwiceConverges ==
    \A p \in Procs :
        ( /\ Done(p) /\ entry[p] = UPDATE_STATE
          /\ IsExecutionEvent(payload[p])
          /\ payload[p].detail.status = "SUCCEEDED"
          /\ InputIdentity(payload[p]) # PyNone
          /\ outcome[p] = "returned" /\ EarlierReturned(p) )
        => /\ statedb[InputIdentity(payload[p])].state = "COMPLETED"
           /\ sns = <<>>

-----------------------------------------------------------------------------
(* C13 *)

\* C13: in every invocation a publish is preceded, in this order, by a
\* successful set_failed or set_invalid for the identity and a successful
\* get_dbitem for the same identity, and its `error` attribute is the text that
\* was passed to the state store; an invocation makes at most one state-store
\* transition and at most one publish.
C13_TransitionThenRereadThenPublish ==
    \A p \in Procs :
        LET cs == calls[p]
        IN /\ Len(CallsOf(p, SetOps \cup {"set_completed"})) <= 1
           /\ Len(CallsOf(p, {"publish"})) <= 1
           /\ \A k \in 1..Len(cs) :
                cs[k].op = "publish" =>
                    /\ \E i \in 1..k : \E j \in (i + 1)..(k - 1) :
                          /\ cs[i].op \in SetOps /\ cs[i].ok
                          /\ cs[i].key = locals[p].catalog.id
                          /\ cs[j].op = "get_dbitem" /\ cs[j].ok
                          /\ cs[j].key = cs[i].key
                          /\ cs[k].arg = cs[i].arg
                    /\ cs[k].ok => Len(sns) > 0 /\ Last(sns).error = cs[k].arg

\* the workflow-failed handler made exactly the three calls, all successful
C13_Witness ==
    /\ Done("p1") /\ outcome["p1"] = "returned" /\ entry["p1"] = WORKFLOW_FAILED
    /\ Len(calls["p1"]) = 3
    /\ calls["p1"][1].op = "set_failed" /\ calls["p1"][2].op = "get_dbitem"
    /\ calls["p1"][3].op = "publish" /\ calls["p1"][3].ok
    /\ calls["p1"][3].arg = "States.TaskFailed: disk full"

-----------------------------------------------------------------------------
(* C14 *)

\* the update-state handler is past parse_payload on an execution event that
\* carries an execution handle
ClassifiedExecutionEvent(p) ==
    /\ entry[p] = UPDATE_STATE
    /\ pc[p] \notin {"idle", "parse_payload"}
    /\ IsExecutionEvent(payload[p])
    /\ "executionArn" \in DOMAIN payload[p].detail

\* C14: on an execution event the execution history is looked up exactly
\* when the nested status is FAILED: once, for the event's execution handle,
\* as the first external call of the invocation, so before any state-store
\* call; for any other nested status it is never looked up and the raw error
\* is none.
C14_HistoryLookupOnlyWhenFailed ==
    \A p \in Procs :
        /\ pc[p] = "parse_payload" => calls[p] = <<>>
        /\ ClassifiedExecutionEvent(p) =>
              LET hist == CallsOf(p, {"get_execution_history"})
              IN IF payload[p].detail.status = FAILED
                 THEN /\ Len(hist) = 1
                      /\ hist[1].key = payload[p].detail.executionArn
                      /\ calls[p][1].op = "get_execution_history"
                 ELSE /\ hist = <<>>
                      /\ locals[p].error = None

\* a FAILED event whose history was looked up, and then the record marked
\* failed with the error found in the history
C14_Witness ==
    /\ Done("p1") /\ ClassifiedExecutionEvent("p1")
    /\ payload["p1"].detail.status = FAILED
    /\ Len(calls["p1"]) = 2
    /\ calls["p1"][1].op = "get_execution_history" /\ calls["p1"][1].ok
    /\ calls["p1"][1].key = "arn:exec:timeout"
    /\ calls["p1"][2].op = "set_failed" /\ calls["p1"][2].ok
    /\ calls["p1"][2].arg = "States.Timeout: disk full"

-----------------------------------------------------------------------------
(* C15 *)

\* the embedded error an event carries, None when it carries none: no
\* state-entered details, no input, an input that cannot be decoded, or an
\* input document without an `error` field
EmbeddedError(event) ==
    IF "stateEnteredEventDetails" \notin DOMAIN event THEN None
    ELSE IF "input" \notin DOMAIN event.stateEnteredEventDetails THEN None
    ELSE LET doc == json_loads(event.stateEnteredEventDetails.input)
         IN IF doc.ok /\ doc.kind = "object" /\ "error" \in DOMAIN doc.value
            THEN doc.value.error
            ELSE None

\* the embedded error of the first of the events that carries one
RECURSIVE FirstEmbeddedError(_)
FirstEmbeddedError(events) ==
    IF events = <<>> THEN None
    ELSE IF EmbeddedError(Head(events)) # None THEN EmbeddedError(Head(events))
    ELSE FirstEmbeddedError(Tail(events))

\* the update-state handler has looked up the history of a FAILED event, the
\* lookup succeeded and the event was classified
ScannedHistory(p) ==
    /\ ClassifiedExecutionEvent(p)
    /\ payload[p].detail.status = FAILED
    /\ calls[p][1].ok
    /\ locals[p].catalog # None

\* C15: from the (at most 10) events of the history, latest first,
\* get_execution_error returns the embedded error of the first event that
\* carries one, passing over the events without state-entered details, without
\* an `error` field or with an input that cannot be decoded; it returns none
\* only when no event of the scan carries an embedded error.
C15_FirstEmbeddedErrorIsReturned ==
    \A p \in Procs :
        ScannedHistory(p)
        => locals[p].error =
             FirstEmbeddedError(
                get_execution_history(payload[p].detail.executionArn,
                                      MAX_EXECUTION_EVENTS).events)

-----------------------------------------------------------------------------
(* C16 *)

\* the Cause of a raw error parses to a document with no `errorMessage`, with
\* `Attempts`, and whose last attempt's StatusReason holds the phrase
EssentialExitCause(error) ==
    /\ error # None /\ "Cause" \in DOMAIN error
    /\ LET doc == json_loads(error.Cause)
       IN /\ doc.ok /\ doc.kind = "object"
          /\ "errorMessage" \notin DOMAIN doc.value
          /\ "Attempts" \in DOMAIN doc.value
          /\ Len(doc.value.Attempts) > 0
          /\ "StatusReason" \in DOMAIN Last(doc.value.Attempts)
          /\ StrContains(Last(doc.value.Attempts).StatusReason, ESSENTIAL_EXIT)

\* the last attempt of such a Cause names a log stream
NamesLogStream(error) ==
    LET attempt == Last(json_loads(error.Cause).value.Attempts)
    IN "Container" \in DOMAIN attempt /\ "LogStreamName" \in DOMAIN attempt.Container

\* the update-state handler has computed the error descriptor
HasDescriptor(p) == entry[p] = UPDATE_STATE /\ locals[p].error_text # PyNone

\* C16: the update-state handler reads the batch log only for a Cause that
\* parses to a document with no `errorMessage`, with `Attempts`, and whose last
\* attempt's StatusReason contains "Essential container in task exited" (and it
\* does read it for such a Cause that names a log stream); the pair the log
\* resolver returns then replaces both the type and the message, so that a
\* log-derived "InvalidInput" marks the record invalid.  When the log is not
\* read the type is the raw error's `Error` field.
C16_LogResolverOnlyOnEssentialExit ==
    \A p \in Procs :
        HasDescriptor(p) =>
            LET logs == CallsOf(p, {"get_log_events"})
                sets == CallsOf(p, SetOps)
                error == locals[p].error
            IN /\ Len(logs) <= 1
               /\ Len(logs) = 1 <=> (EssentialExitCause(error) /\ NamesLogStream(error))
               /\ Len(logs) = 1 =>
                    LET pair == get_error_from_batch(
                                    [ok |-> logs[1].ok, logs |-> get_log_events(logs[1].key)])
                    IN /\ locals[p].error_type = pair[1]
                       /\ locals[p].error_msg = pair[2]
                       /\ \A k \in 1..Len(sets) :
                            sets[k].op = "set_invalid" <=> pair[1] = "InvalidInput"
               /\ Len(logs) = 0 => locals[p].error_type = error_type_of(error)

\* a task failure whose batch log names InvalidInput: the log was read and
\* the record marked invalid
C16_Witness ==
    /\ HasDescriptor("p1") /\ Done("p1")
    /\ error_type_of(locals["p1"].error) = "States.TaskFailed"
    /\ Len(calls["p1"]) >= 2
    /\ calls["p1"][1].op = "get_log_events" /\ calls["p1"][1].ok
    /\ calls["p1"][2].op = "set_invalid" /\ calls["p1"][2].ok
    /\ statedb["wf1"].state = "INVALID"

-----------------------------------------------------------------------------
(* C17 *)

PREFIX == "cirruslib.errors."

\* s without the prefix, when it starts with it; s otherwise
WithoutPrefix(s, prefix) ==
    IF Len(s) >= Len(prefix) /\ SubSeq(s, 1, Len(prefix)) = prefix
    THEN SubSeq(s, Len(prefix) + 1, Len(s))
    ELSE s

\* s without its leading spaces
RECURSIVE WithoutLeadingSpaces(_)
WithoutLeadingSpaces(s) ==
    IF Len(s) > 0 /\ SubSeq(s, 1, 1) = " " THEN WithoutLeadingSpaces(Tail(s)) ELSE s

\* the pair the claim gives for a log message: the prefix removed, the rest
\* split at the first colon, "BadFormat" and "missing header" for
\* "cirruslib.errors.BadFormat: missing header"
ClaimedPair(message) ==
    LET rest == WithoutPrefix(message, PREFIX)
        i == IndexFrom(rest, ":", 1)
    IN IF i = 0 THEN <<"Unknown", rest>>
       ELSE <<SubSeq(rest, 1, i - 1), WithoutLeadingSpaces(SubSeq(rest, i + 1, Len(rest)))>>

\* the update-state handler has read a batch log that holds a message
ReadBatchLog(p) ==
    /\ HasDescriptor(p)
    /\ CallsOf(p, {"get_log_events"}) # <<>>
    /\ CallsOf(p, {"get_log_events"})[1].ok
    /\ LogStream(CallsOf(p, {"get_log_events"})[1].key) # <<>>

\* C17: get_error_from_batch removes exactly the prefix "cirruslib.errors."
\* from the last log message when the message starts with it, and nothing
\* otherwise, then splits at the first colon into the type and the message:
\* "cirruslib.errors.BadFormat: missing header" gives "BadFormat" and
\* "missing header"; without a colon the type is "Unknown" and the message the
\* whole remaining string.
C17_PrefixRemovedThenSplit ==
    \A p \in Procs :
        ReadBatchLog(p)
        => <<locals[p].error_type, locals[p].error_msg>>
             = ClaimedPair(Last(LogStream(CallsOf(p, {"get_log_events"})[1].key)).message)

-----------------------------------------------------------------------------
(* C18 *)

\* C18: in both handlers, when Cause parses to a document with an
\* `errorMessage` field the message of the descriptor is that field's value,
\* "unknown" when the value is empty, and the type is the raw error's `Error`
\* field, "unknown" when there is none; when Cause is not valid structured
\* data the message is the Cause string itself and the type is again the raw
\* `Error` field.
C18_MessageFromErrorMessageOrCause ==
    \A p \in Procs :
        locals[p].error_text # PyNone =>
            LET error == locals[p].error
                doc == json_loads(error.Cause)
                type == IF "Error" \in DOMAIN error THEN error.Error ELSE "unknown"
            IN /\ (doc.ok /\ doc.kind = "object" /\ "errorMessage" \in DOMAIN doc.value)
                    => /\ locals[p].error_msg =
                            IF doc.value.errorMessage = "" THEN "unknown"
                            ELSE doc.value.errorMessage
                       /\ locals[p].error_type = type
               /\ ~doc.ok
                    => /\ locals[p].error_msg = error.Cause
                       /\ locals[p].error_type = type

-----------------------------------------------------------------------------
(* C19 *)

\* the record as a state-store transition w leaves it
RecordWritten(w) ==
    [InitialRecord(w.key) EXCEPT !.state = state_of(w.op), !.last_error = w.arg]

\* C19: the body of every notification an invocation publishes is the
\* record with the status and the last error that the invocation's own
\* set_failed or set_invalid call wrote, also when another invocation handles
\* a terminal event for the same identity at the same time and writes the
\* record between this invocation's transition and its reading of the record.
C19_BodyIsOwnTransition ==
    \A p \in Procs :
        \A k \in 1..Len(calls[p]) :
            (calls[p][k].op = "publish" /\ calls[p][k].ok)
            => calls[p][k].body = json_dumps(RecordWritten(SetCallOf(calls[p])))

-----------------------------------------------------------------------------
(* C20 *)

\* the update-state handler is past parse_payload on a payload that carries
\* an `error` field
ClassifiedErrorPayload(p) ==
    /\ entry[p] = UPDATE_STATE
    /\ pc[p] \notin {"idle", "parse_payload"}
    /\ "error" \in DOMAIN payload[p]

\* the payload was classified FAILED, with its own `error` field as the raw
\* error and its own workflow identity
ClassifiedFailedFromPayload(p) ==
    /\ locals[p].status = FAILED
    /\ locals[p].error = payload[p].error
    /\ locals[p].catalog # None
    /\ "id" \in DOMAIN payload[p]
    /\ locals[p].catalog.id = payload[p].id

NoHistoryLookup(p) == CallsOf(p, {"get_execution_history"}) = <<>>

\* C20 as claimed: a payload that contains an `error` field is always
\* classified FAILED, with that field as the raw error and the identity of the
\* payload itself, also when it has source "aws.states" and a nested status
\* other than FAILED; the execution history is never looked up for it.
C20_ErrorFieldAlwaysFailed ==
    \A p \in Procs :
        ClassifiedErrorPayload(p)
        => ClassifiedFailedFromPayload(p) /\ NoHistoryLookup(p)

\* C20 as amended: the same for a payload that holds a workflow identity; a
\* payload with an `error` field and no workflow identity is dropped: no
\* status, no state-store call, nothing published.  In both cases the
\* execution history is not looked up.
C20_DirectErrorTakesPrecedence ==
    \A p \in Procs :
        ClassifiedErrorPayload(p)
        => /\ NoHistoryLookup(p)
           /\ IF "id" \in DOMAIN payload[p]
              THEN ClassifiedFailedFromPayload(p)
              ELSE /\ locals[p].status = PyNone /\ locals[p].catalog = None
                   /\ NoStoreNoPublish(p)

\* a payload with an `error` field, source "aws.states", nested status
\* SUCCESS and another identity in its nested input was handled as the
\* failure of its own identity
C20_Witness ==
    /\ Done("p1") /\ ClassifiedErrorPayload("p1")
    /\ "source" \in DOMAIN payload["p1"] /\ payload["p1"].source = "aws.states"
    /\ payload["p1"].detail.status = SUCCESS
    /\ InputIdentity(payload["p1"]) = "wf2"
    /\ locals["p1"].status = FAILED /\ locals["p1"].catalog.id = "wf1"
    /\ statedb["wf1"].state = "INVALID"
    /\ statedb["wf2"] = InitialRecord("wf2")

====
